---- MODULE Spec2Model ----
(***************************************************************************)
(* Annotation placement in the Screenshot Annotator.  Two hosts run the    *)
(* two-click placement protocol:                                           *)
(*   "overlay" - the content script's AnnotationOverlay                    *)
(*               (src/extension/content.js), whose working annotation list *)
(*               is written to chrome.storage.local by Save & Exit;        *)
(*   "app"     - the React ScreenshotAnnotationApp (src/unnamed/part_000), *)
(*               whose annotation list lives in a backend store reached    *)
(*               over HTTP.                                                *)
(* A behaviour runs one host; Init chooses which.                          *)
(* Beside the overlay run the extension's popup (src/extension/popup.js),   *)
(* which writes its own copy of the stored list, and the background        *)
(* script's storage listener (src/extension/background.js).                *)
(***************************************************************************)
EXTENDS Integers, Sequences, FiniteSets, TLC

VARIABLES
    host,               \* which host this behaviour runs
    clock,              \* the reading of Date.now()
    \* ---- AnnotationOverlay (content.js) ----
    isActive,
    screenshot,         \* id of this.screenshot, or NULL
    annotations,        \* this.annotations (aliases this.screenshot.annotations)
    currentAnnotation,
    overlayShown,       \* this.overlay is attached to the document
    isAddingAnnotation,
    pendingText,
    ctxFont,            \* font of this.canvas's 2d context
    layer,              \* drawing commands on this.canvas since its last clear
    storage,            \* the 'screenshots' key of chrome.storage.local
    saves,              \* saveAndExit invocations in flight; `cancelled` is
                        \* history: cancel() ran since the invocation began
    \* ---- ScreenshotAnnotationApp (part_000) ----
    currentScreenshot,  \* id of the selected screenshot, or NULL
    isAnnotating,
    annotationText,
    appAnnotations,     \* the `annotations` state
    pendingAnnotation,
    requests,           \* axios calls in flight
    store,              \* the backend's annotation lists, by screenshot id
    appLayer,           \* drawing commands on the app's canvas since its last reset
    \* ---- ScreenshotAnnotator (popup.js) ----
    popupOpen,          \* the popup document exists and init() has loaded the list
    popupScreenshots,   \* this.screenshots of the popup
    selectedScreenshot, \* this.selectedScreenshot: Undefined (null) or Some(screenshot)
    memoryUsage,        \* this.memoryUsage
    listItems,          \* the screenshots whose items the last updateUI rendered
    popupStatus,        \* what the status element shows
    popupTasks,         \* handlers of the popup waiting at an await; `closed` is
                        \* set when their document has gone
    tabMessage,         \* the last message sent to the content script
    \* ---- background.js ----
    notificationsAvailable, \* chrome.notifications is defined for the extension
    notifications,      \* number of notifications created
    lastChange,         \* history: arguments of the last storage.onChanged event
    \* ---- history ----
    lastEvent,          \* the last event handled and the placement state it arrived in
    startText           \* text accepted by the latest startPlacement that
                        \* preceded the placement's label click

overlayVars == <<isActive, screenshot, annotations, currentAnnotation, overlayShown,
                 isAddingAnnotation, pendingText, ctxFont, layer,
                 storage, saves>>
appVars == <<currentScreenshot, isAnnotating, annotationText, appAnnotations,
             pendingAnnotation, requests, store, appLayer>>
popupVars == <<popupOpen, popupScreenshots, selectedScreenshot, memoryUsage, listItems,
               popupStatus, popupTasks, tabMessage>>
backgroundVars == <<notificationsAvailable, notifications, lastChange>>
vars == <<host, clock, overlayVars, appVars, popupVars, backgroundVars, lastEvent, startText>>

\* null, for a field holding an id and for a field holding an object
NULL == "null"
NoAnnotation == [null |-> TRUE]

\* An optional value is a sequence of at most one element: undefined (or
\* null) is the empty one.
Undefined == <<>>
Some(value) == <<value>>

\* ---- bounds ----
MaxClock == 1
MaxAnnotations == 2
MaxInFlight == 1
MaxNotifications == 2
MaxFetches == 2

\* ---- program constants ----
OriginalWidth == 1920
OriginalHeight == 1080
DisplayWidth == (OriginalWidth * 9) \div 10
DisplayHeight == (OriginalHeight * 9) \div 10
ArrowLength == 12
TextHeight == 16
Padding == 6
DefaultFont == "10px sans-serif"
LabelFont == "14px Arial"

Hosts == {"overlay", "app"}
ScreenshotIds == {"s1", "s2"}

\* Texts a user types: empty, whitespace only, and two texts with content.
InputTexts == { <<>>, <<" ">>, <<"a">>, <<" ", "b">> }

\* ---- String.prototype.trim ----
RECURSIVE TrimStart(_)
TrimStart(s) ==
    IF s = <<>> THEN <<>>
    ELSE IF Head(s) = " " THEN TrimStart(Tail(s)) ELSE s

RECURSIVE TrimEnd(_)
TrimEnd(s) ==
    IF s = <<>> THEN <<>>
    ELSE IF s[Len(s)] = " " THEN TrimEnd(SubSeq(s, 1, Len(s) - 1)) ELSE s

\* mutant: the value is used untrimmed
Untrimmed(s) == s

Trim(s) == TrimEnd(TrimStart(s))

\* ---- pointer events ----
\* Bounding boxes the canvas can be laid out with: full size, and half size
\* at an offset (max-width / max-height shrink the container).
Rects ==
    { [left |-> 0, top |-> 0, width |-> DisplayWidth, height |-> DisplayHeight],
      [left |-> 100, top |-> 50, width |-> DisplayWidth \div 2,
       height |-> DisplayHeight \div 2] }

\* A pointer event with the bounding box read while handling it: the box's
\* top-left and bottom-right corners.
PointerEvents ==
    { [clientX |-> r.left + k * r.width, clientY |-> r.top + k * r.height, rect |-> r] :
        r \in Rects, k \in {0, 1} }

\* ---- Number ----
\* Coordinates are whole numbers in every case the model draws.  The three
\* values of a Number that are not finite are kept apart from them, beyond
\* every coordinate an image of OriginalWidth x OriginalHeight can give.
PosInfinity == OriginalWidth * OriginalHeight
NegInfinity == 0 - PosInfinity
NaN == PosInfinity + 1

IsFinite(v) == v \notin {PosInfinity, NegInfinity, NaN}

\* a - b
Minus(a, b) ==
    IF IsFinite(a) /\ IsFinite(b) THEN a - b
    ELSE IF a = NaN \/ b = NaN \/ a = b THEN NaN
    ELSE IF IsFinite(b) THEN a
    ELSE 0 - b

\* a * b for a finite a
Times(a, b) ==
    IF IsFinite(b) THEN a * b
    ELSE IF b = NaN \/ a = 0 THEN NaN
    ELSE IF a > 0 THEN b
    ELSE 0 - b

\* a / b for whole a > 0 and b >= 0; the boxes the model draws divide the
\* canvas size evenly, and a zero box gives Infinity.
Ratio(a, b) == IF b = 0 THEN PosInfinity ELSE a \div b

\* mutant: the box's origin is not subtracted
MapAxisFromViewport(client, origin, intrinsic, box) ==
    Times(client, Ratio(intrinsic, box))

\* (e.clientX - rect.left) * (this.canvas.width / rect.width)
MapAxis(client, origin, intrinsic, box) == Times(client - origin, Ratio(intrinsic, box))

CanvasX(e) == MapAxis(e.clientX, e.rect.left, DisplayWidth, e.rect.width)
CanvasY(e) == MapAxis(e.clientY, e.rect.top, DisplayHeight, e.rect.height)

\* ---- AnnotationOverlay.drawAnnotations ----
\* The six drawing steps of one committed annotation.  Widths that come from
\* ctx.measureText are kept as the measured text and the font it was measured
\* in; the arrowhead keeps the arguments of Math.atan2.
DrawOne(a) ==
    << [op |-> "line", x1 |-> a.x, y1 |-> a.y, x2 |-> a.pointer_x, y2 |-> a.pointer_y],
       [op |-> "arrowhead", x |-> a.pointer_x, y |-> a.pointer_y,
        dy |-> Minus(a.pointer_y, a.y), dx |-> Minus(a.pointer_x, a.x),
        length |-> ArrowLength],
       [op |-> "dot", x |-> a.pointer_x, y |-> a.pointer_y],
       [op |-> "fillRect", fill |-> "label", x |-> Minus(a.x, Padding),
        y |-> Minus(Minus(a.y, TextHeight), Padding), text |-> a.text, font |-> LabelFont],
       [op |-> "strokeRect", x |-> Minus(a.x, Padding),
        y |-> Minus(Minus(a.y, TextHeight), Padding), text |-> a.text, font |-> LabelFont],
       [op |-> "fillText", text |-> a.text, x |-> a.x, y |-> Minus(a.y, 4),
        font |-> LabelFont] >>

RECURSIVE DrawAll(_)
DrawAll(anns) ==
    IF anns = <<>> THEN <<>> ELSE DrawOne(Head(anns)) \o DrawAll(Tail(anns))

\* ctx.font after the forEach: set inside the loop body only.
FontAfterLoop(anns, font) == IF anns = <<>> THEN font ELSE LabelFont

\* The in-progress label, measured and drawn in whatever font the context holds.
DrawCurrent(cur, font) ==
    IF cur = NoAnnotation THEN <<>>
    ELSE << [op |-> "fillRect", fill |-> "pending", x |-> Minus(cur.x, 4),
             y |-> Minus(cur.y, 20), text |-> cur.text, font |-> font],
            [op |-> "fillText", text |-> cur.text, x |-> cur.x, y |-> Minus(cur.y, 4),
             font |-> font] >>

\* mutant: the layer is not cleared first
DrawAnnotationsNoClear(anns, cur, font) ==
    DrawAll(anns) \o DrawCurrent(cur, FontAfterLoop(anns, font))

DrawAnnotations(anns, cur, font) ==
    << [op |-> "clearRect"] >> \o DrawAll(anns) \o DrawCurrent(cur, FontAfterLoop(anns, font))

\* mutant: the preview starts at the pointer
DrawPreviewAtPointer(cur, x, y) ==
    << [op |-> "dashedLine", x1 |-> x, y1 |-> y, x2 |-> x, y2 |-> y] >>

\* The dashed preview line of the mousemove handler.
DrawPreview(cur, x, y) ==
    << [op |-> "dashedLine", x1 |-> cur.x, y1 |-> cur.y, x2 |-> x, y2 |-> y] >>

\* ---- chrome.storage.local 'screenshots' ----
\* screenshots.findIndex(s => s.id === id): 0 when absent (1-based otherwise).
RECURSIVE FindIndexFrom(_, _, _)
FindIndexFrom(list, id, i) ==
    IF i > Len(list) THEN 0
    ELSE IF list[i].id = id THEN i ELSE FindIndexFrom(list, id, i + 1)

FindIndex(list, id) == FindIndexFrom(list, id, 1)

\* screenshots[index] = this.screenshot, when index !== -1
ReplaceScreenshot(list, shot) ==
    LET index == FindIndex(list, shot.id)
    IN  IF index # 0 THEN [list EXCEPT ![index] = shot] ELSE list

RemoveAt(seq, i) == SubSeq(seq, 1, i - 1) \o SubSeq(seq, i + 1, Len(seq))

\* ---- the placement state the fields encode ----
Phase ==
    IF host = "overlay"
    THEN IF ~isAddingAnnotation THEN "Idle"
         ELSE IF currentAnnotation = NoAnnotation THEN "AwaitingLabelClick"
         ELSE "AwaitingTargetClick"
    ELSE IF ~isAnnotating THEN "Idle"
         ELSE IF pendingAnnotation = NoAnnotation THEN "AwaitingLabelClick"
         ELSE "AwaitingTargetClick"

Event(kind) == [kind |-> kind, from |-> Phase]

\* ---- initial state ----
InitOverlay ==
    /\ isActive = FALSE
    /\ screenshot = NULL
    /\ annotations = <<>>
    /\ currentAnnotation = NoAnnotation
    /\ overlayShown = FALSE
    /\ isAddingAnnotation = FALSE
    /\ pendingText = <<>>
    /\ ctxFont = DefaultFont
    /\ layer = <<>>
    \* two screenshots captured by the popup, not yet annotated
    /\ storage = << [id |-> "s1", annotations |-> <<>>],
                    [id |-> "s2", annotations |-> <<>>] >>
    /\ saves = <<>>

InitApp ==
    /\ currentScreenshot = NULL
    /\ isAnnotating = FALSE
    /\ annotationText = <<>>
    /\ appAnnotations = <<>>
    /\ pendingAnnotation = NoAnnotation
    /\ requests = <<>>
    \* two uploaded screenshots, not yet annotated
    /\ store = [s \in ScreenshotIds |-> <<>>]
    /\ appLayer = <<>>

\* formatMemorySize's result, and the status element's content
NoSize == [value |-> 0, unit |-> ""]
Status(message, size) == [message |-> message, size |-> size]
NoStatus == Status("", NoSize)

\* No popup is open.
InitPopup ==
    /\ popupOpen = FALSE
    /\ popupScreenshots = <<>>
    /\ selectedScreenshot = Undefined
    /\ memoryUsage = 0
    /\ listItems = <<>>
    /\ popupStatus = NoStatus
    /\ popupTasks = <<>>
    /\ tabMessage = Undefined

\* No storage change has been reported.
NoChange == [areaName |-> "none", keys |-> {}, newValue |-> <<>>]

InitListener ==
    /\ notifications = 0
    /\ lastChange = NoChange

\* The permissions the README lists (activeTab, storage, desktopCapture) do
\* not include "notifications": chrome.notifications is undefined.
InitBackground ==
    /\ notificationsAvailable = FALSE
    /\ InitListener

Init ==
    /\ host \in Hosts
    /\ clock = 0
    /\ InitOverlay
    /\ InitApp
    /\ InitPopup
    /\ InitBackground
    /\ lastEvent = [kind |-> "none", from |-> "Idle"]
    /\ startText = <<>>

\* ---- the clock ----
Tick ==
    /\ host = "overlay"
    /\ clock < MaxClock
    /\ clock' = clock + 1
    /\ lastEvent' = Event("tick")
    /\ UNCHANGED <<popupVars, backgroundVars, host, overlayVars, appVars, startText>>

\* ---- AnnotationOverlay ----
\* startAnnotationMode(message.screenshot): the popup sends one of the stored
\* screenshots.  createOverlay replaces the overlay, its controls and its canvas
\* and draws the annotations; the placement fields are not touched.
StartAnnotationMode(shot) ==
    /\ host = "overlay"
    /\ screenshot' = shot.id
    /\ annotations' = shot.annotations
    /\ isActive' = TRUE
    /\ overlayShown' = TRUE
    /\ layer' = DrawAnnotations(shot.annotations, currentAnnotation, DefaultFont)
    /\ ctxFont' = FontAfterLoop(shot.annotations, DefaultFont)
    /\ lastEvent' = Event("session")
    /\ UNCHANGED <<popupVars, backgroundVars, appVars, host, clock, currentAnnotation, isAddingAnnotation, pendingText,
                   storage, saves, startText>>

\* startAddingAnnotation, the Add Annotation button.  `value` is what the text
\* input holds when the button is clicked: the user may have typed anything
\* since the input was created or cleared.
StartAddingAnnotation(value) ==
    /\ host = "overlay"
    /\ overlayShown
    /\ LET text == Trim(value)
       IN  IF text = <<>>
           THEN /\ lastEvent' = Event("startRejected")
                /\ UNCHANGED <<pendingText, isAddingAnnotation, startText>>
           ELSE /\ pendingText' = text
                /\ isAddingAnnotation' = TRUE
                /\ startText' = IF currentAnnotation = NoAnnotation THEN text
                                ELSE startText
                /\ lastEvent' = Event("start")
    /\ UNCHANGED <<popupVars, backgroundVars, appVars, host, clock, isActive, screenshot, annotations, currentAnnotation,
                   overlayShown, ctxFont, layer, storage, saves>>

\* The record built by the first click.  `pushed` is history: it is set when
\* the object is pushed to this.annotations.
NewAnnotation(x, y) ==
    [id |-> clock, text |-> pendingText, x |-> x, y |-> y,
     pointer_x |-> x, pointer_y |-> y, timestamp |-> clock, pushed |-> FALSE]

\* mutant: the guard tests the session flag
ClickIgnoredWhenInactive == ~isActive

\* if (!this.isAddingAnnotation) return;
ClickIgnored == ~isAddingAnnotation

\* mutant: unshift for push
Unshift(list, a) == <<a>> \o list

\* this.annotations.push(this.currentAnnotation)
Push(list, a) == Append(list, a)

\* The canvas click handler.
CanvasClick(e) ==
    /\ host = "overlay"
    /\ overlayShown
    /\ LET x == CanvasX(e)
           y == CanvasY(e)
       IN  IF ClickIgnored
           THEN /\ lastEvent' = Event("click")
                /\ UNCHANGED <<annotations, currentAnnotation, isAddingAnnotation,
                               ctxFont, layer, startText>>
           ELSE IF currentAnnotation = NoAnnotation
           THEN /\ currentAnnotation' = NewAnnotation(x, y)
                /\ lastEvent' = Event("click")
                /\ UNCHANGED <<annotations, isAddingAnnotation, ctxFont,
                               layer, startText>>
           ELSE /\ Len(annotations) < MaxAnnotations
                /\ annotations' = Push(annotations,
                       [currentAnnotation EXCEPT !.pointer_x = x, !.pointer_y = y,
                                                 !.pushed = TRUE])
                /\ currentAnnotation' = NoAnnotation
                /\ isAddingAnnotation' = FALSE
                /\ layer' = DrawAnnotations(annotations', NoAnnotation, ctxFont)
                /\ ctxFont' = FontAfterLoop(annotations', ctxFont)
                /\ startText' = <<>>
                /\ lastEvent' = Event("click")
    /\ UNCHANGED <<popupVars, backgroundVars, appVars, host, clock, isActive, screenshot, overlayShown, pendingText,
                   storage, saves>>

\* mutant: the preview aims the annotation in progress at the pointer
CanvasMouseMoveAims(e) ==
    /\ host = "overlay"
    /\ overlayShown
    /\ IF ~isAddingAnnotation \/ currentAnnotation = NoAnnotation
       THEN UNCHANGED <<ctxFont, layer, currentAnnotation>>
       ELSE /\ currentAnnotation' = [currentAnnotation EXCEPT
                                        !.pointer_x = CanvasX(e), !.pointer_y = CanvasY(e)]
            /\ layer' = DrawAnnotations(annotations, currentAnnotation', ctxFont)
            /\ ctxFont' = FontAfterLoop(annotations, ctxFont)
    /\ lastEvent' = Event("move")
    /\ UNCHANGED <<popupVars, backgroundVars, appVars, host, clock, isActive, screenshot, annotations,
                   overlayShown, isAddingAnnotation, pendingText,
                   storage, saves, startText>>

\* The canvas mousemove handler.
CanvasMouseMove(e) ==
    /\ host = "overlay"
    /\ overlayShown
    /\ IF ~isAddingAnnotation \/ currentAnnotation = NoAnnotation
       THEN UNCHANGED <<ctxFont, layer>>
       ELSE /\ layer' = DrawAnnotations(annotations, currentAnnotation, ctxFont)
                        \o DrawPreview(currentAnnotation, CanvasX(e), CanvasY(e))
            /\ ctxFont' = FontAfterLoop(annotations, ctxFont)
    /\ lastEvent' = Event("move")
    /\ UNCHANGED <<popupVars, backgroundVars, appVars, host, clock, isActive, screenshot, annotations, currentAnnotation,
                   overlayShown, isAddingAnnotation, pendingText,
                   storage, saves, startText>>

\* mutant: cleanup forgets the annotation in progress
CleanupKeepsCurrent ==
    /\ overlayShown' = FALSE
    /\ isActive' = FALSE
    /\ screenshot' = NULL
    /\ annotations' = <<>>
    /\ isAddingAnnotation' = FALSE
    /\ pendingText' = <<>>
    /\ ctxFont' = DefaultFont
    /\ layer' = <<>>
    /\ startText' = <<>>
    /\ UNCHANGED currentAnnotation

\* cleanup(): the overlay, with its input and canvas, leaves the document.
Cleanup ==
    /\ overlayShown' = FALSE
    /\ isActive' = FALSE
    /\ screenshot' = NULL
    /\ annotations' = <<>>
    /\ currentAnnotation' = NoAnnotation
    /\ isAddingAnnotation' = FALSE
    /\ pendingText' = <<>>
    /\ ctxFont' = DefaultFont
    /\ layer' = <<>>
    /\ startText' = <<>>

\* cancel(), the Cancel button.  Nothing of a saveAndExit in flight is
\* touched: its continuations and its timer stay scheduled.
Cancel ==
    /\ host = "overlay"
    /\ overlayShown
    /\ Cleanup
    /\ saves' = [i \in 1..Len(saves) |-> [saves[i] EXCEPT !.cancelled = TRUE]]
    /\ lastEvent' = Event("cancel")
    /\ UNCHANGED <<popupVars, backgroundVars, appVars, host, clock, storage>>

\* mutant: the annotation in progress is saved with the list
SessionScreenshotWithCurrent ==
    [id |-> screenshot,
     annotations |-> IF currentAnnotation = NoAnnotation THEN annotations
                     ELSE Append(annotations, currentAnnotation)]

\* this.screenshot as saveAndExit stores it: its annotations are the array
\* this.annotations (assigned at line 371, and already the same array since
\* startAnnotationMode).
SessionScreenshot == [id |-> screenshot, annotations |-> annotations]

\* saveAndExit up to its first await: this.screenshot.annotations =
\* this.annotations, then chrome.storage.local.get is issued.
SaveAndExit ==
    /\ host = "overlay"
    /\ overlayShown
    /\ Len(saves) < MaxInFlight
    /\ saves' = Append(saves, [pc |-> "get", payload |-> <<>>, cancelled |-> FALSE])
    /\ lastEvent' = Event("save")
    /\ UNCHANGED <<popupVars, backgroundVars, appVars, host, clock, isActive, screenshot, annotations, currentAnnotation,
                   overlayShown, isAddingAnnotation, pendingText, ctxFont,
                   layer, storage, startText>>

\* The get resolves: the stored list is read, the entry with the session's id
\* is replaced by this.screenshot and chrome.storage.local.set is issued with
\* that list.  Reading this.screenshot.id after cleanup throws; the catch
\* block ends the save.  On an empty list findIndex never calls its callback:
\* nothing is read from this.screenshot and the empty list is written.
SaveGetDone(i) ==
    /\ i \in 1..Len(saves)
    /\ saves[i].pc = "get"
    /\ IF screenshot = NULL /\ storage # <<>>
       THEN saves' = RemoveAt(saves, i)
       ELSE saves' = [saves EXCEPT ![i].pc = "set",
                                   ![i].payload = ReplaceScreenshot(storage, SessionScreenshot)]
    /\ lastEvent' = Event("saveRead")
    /\ UNCHANGED <<popupVars, backgroundVars, appVars, host, clock, isActive, screenshot, annotations, currentAnnotation,
                   overlayShown, isAddingAnnotation, pendingText, ctxFont,
                   layer, storage, startText>>

\* The set resolves: the list is in storage, the success notification is
\* shown and cleanup is scheduled.
SaveSetDone(i) ==
    /\ i \in 1..Len(saves)
    /\ saves[i].pc = "set"
    /\ storage' = saves[i].payload
    /\ saves' = [saves EXCEPT ![i].pc = "timer", ![i].payload = <<>>]
    /\ lastEvent' = Event("saveWritten")
    /\ UNCHANGED <<popupVars, backgroundVars, appVars, host, clock, isActive, screenshot, annotations, currentAnnotation,
                   overlayShown, isAddingAnnotation, pendingText, ctxFont,
                   layer, startText>>

\* mutant: the catch block also closes the session
SaveFailCleansUp(i) ==
    /\ i \in 1..Len(saves)
    /\ saves[i].pc \in {"get", "set"}
    /\ saves' = RemoveAt(saves, i)
    /\ Cleanup
    /\ lastEvent' = Event("saveFailed")
    /\ UNCHANGED <<popupVars, backgroundVars, appVars, host, clock, storage>>

\* A storage call rejects: the catch block reports the failure.
SaveFail(i) ==
    /\ i \in 1..Len(saves)
    /\ saves[i].pc \in {"get", "set"}
    /\ saves' = RemoveAt(saves, i)
    /\ lastEvent' = Event("saveFailed")
    /\ UNCHANGED <<popupVars, backgroundVars, appVars, host, clock, isActive, screenshot, annotations, currentAnnotation,
                   overlayShown, isAddingAnnotation, pendingText, ctxFont,
                   layer, storage, startText>>

\* mutant: the timer's callback leaves the session alone
CleanupTimerIdle(i) ==
    /\ i \in 1..Len(saves)
    /\ saves[i].pc = "timer"
    /\ saves' = RemoveAt(saves, i)
    /\ lastEvent' = Event("timer")
    /\ UNCHANGED <<popupVars, backgroundVars, appVars, host, clock, isActive, screenshot,
                   annotations, currentAnnotation, overlayShown, isAddingAnnotation,
                   pendingText, ctxFont, layer, storage, startText>>

\* The 1500 ms timer of a successful save fires.
CleanupTimer(i) ==
    /\ i \in 1..Len(saves)
    /\ saves[i].pc = "timer"
    /\ saves' = RemoveAt(saves, i)
    /\ Cleanup
    /\ lastEvent' = Event("timer")
    /\ UNCHANGED <<popupVars, backgroundVars, appVars, host, clock, storage>>

\* ---- ScreenshotAnnotator, the popup ----
\* Ids of screenshots captured while the model runs: Date.now().toString().
CapturedIds == {"s3"}

ScreenshotIdsOf(list) == { list[i].id : i \in 1..Len(list) }

\* imageData.length of each screenshot's data URL; a screenshot's image never
\* changes.  The lengths are multiples of 4, so that length * 0.75 is whole,
\* and give usages below 1 KB, below 1 MB and above.
ImageDataLength(id) ==
    IF id = "s1" THEN 1000
    ELSE IF id = "s2" THEN 4096
    ELSE 4 * 1024 * 1024

\* Number of characters of a Number in JSON; a non-finite one is written null.
RECURSIVE Digits(_)
Digits(n) ==
    IF n < 0 THEN 1 + Digits(0 - n)
    ELSE IF n < 10 THEN 1
    ELSE 1 + Digits(n \div 10)

NumberLength(n) == IF IsFinite(n) THEN Digits(n) ELSE 4

\* JSON.stringify(annotation).length for a record the overlay built:
\* {"id":"..","text":"..","x":..,"y":..,"pointer_x":..,"pointer_y":..,
\* "timestamp":".."}, 70 characters of keys and punctuation and 24 of the
\* ISO timestamp; the model's texts need no escaping.
JsonLength(a) ==
    70 + 24 + Digits(a.id) + Len(a.text)
    + NumberLength(a.x) + NumberLength(a.y)
    + NumberLength(a.pointer_x) + NumberLength(a.pointer_y)

RECURSIVE SumJsonLength(_, _)
SumJsonLength(list, i) ==
    IF i > Len(list) THEN 0 ELSE JsonLength(list[i]) + SumJsonLength(list, i + 1)

\* calculateMemoryUsage: this.memoryUsage after the loop over `list`
RECURSIVE MemoryUsageFrom(_, _)
MemoryUsageFrom(list, i) ==
    IF i > Len(list) THEN 0
    ELSE (ImageDataLength(list[i].id) * 3) \div 4
         + SumJsonLength(list[i].annotations, 1)
         + MemoryUsageFrom(list, i + 1)

CalculateMemoryUsage(list) == MemoryUsageFrom(list, 1)

\* Math.round of a non-negative quotient
RoundDiv(n, d) == (2 * n + d) \div (2 * d)

FormatMemorySize(bytes) ==
    IF bytes < 1024 THEN [value |-> bytes, unit |-> "B"]
    ELSE IF bytes < 1024 * 1024 THEN [value |-> RoundDiv(bytes, 1024), unit |-> "KB"]
    ELSE [value |-> RoundDiv(bytes, 1024 * 1024), unit |-> "MB"]

\* background.js, the 'captureVisibleTab' listener: the callback of
\* chrome.tabs.captureVisibleTab calls sendResponse once, with the error when
\* chrome.runtime.lastError is set and with the data URL otherwise.
CaptureVisibleTab(lastError) ==
    IF lastError
    THEN [imageData |-> Undefined, error |-> Some("lastError.message")]
    ELSE [imageData |-> Some("dataUrl"), error |-> Undefined]

\* What chrome.runtime.sendMessage resolves with in the popup: the
\* background's response, or undefined when no response was sent.
CaptureResponses == {Undefined} \cup { Some(CaptureVisibleTab(e)) : e \in BOOLEAN }

\* mutant: any response counts as a capture
HasResponse(response) == response # Undefined

\* `response && response.imageData`
HasCapture(response) == response # Undefined /\ response[1].imageData # Undefined

\* A handler of the popup suspended at an await.
PopupTask(op, pc, payload, shot, prompted) ==
    [op |-> op, pc |-> pc, payload |-> payload, screenshot |-> shot,
     prompted |-> prompted, closed |-> FALSE]

\* The constructor's fields.
PopupFields ==
    /\ popupScreenshots' = <<>>
    /\ selectedScreenshot' = Undefined
    /\ memoryUsage' = 0

\* The popup opens: the constructor and init() run; loadScreenshots reads the
\* stored list and computes the memory usage, updateUI renders the items.
PopupOpen ==
    /\ host = "overlay"
    /\ ~popupOpen
    /\ popupOpen' = TRUE
    /\ popupScreenshots' = storage
    /\ selectedScreenshot' = Undefined
    /\ memoryUsage' = CalculateMemoryUsage(storage)
    /\ listItems' = storage
    /\ popupStatus' = NoStatus
    /\ lastEvent' = Event("popupOpen")
    /\ UNCHANGED <<backgroundVars, appVars, host, clock, overlayVars, popupTasks,
                   tabMessage, startText>>

\* The popup's document goes away with its ScreenshotAnnotator.  A handler
\* waiting for the capture never continues; a storage write already issued
\* is still carried out.
DocumentGone ==
    /\ popupOpen' = FALSE
    /\ PopupFields
    /\ listItems' = <<>>
    /\ popupStatus' = NoStatus
    /\ popupTasks' = [i \in 1..Len(SelectSeq(popupTasks, LAMBDA t : t.pc = "set")) |->
                        [SelectSeq(popupTasks, LAMBDA t : t.pc = "set")[i]
                            EXCEPT !.closed = TRUE]]

\* The popup is closed by the user.
PopupClose ==
    /\ host = "overlay"
    /\ popupOpen
    /\ DocumentGone
    /\ lastEvent' = Event("popupClose")
    /\ UNCHANGED <<backgroundVars, appVars, host, clock, overlayVars, tabMessage, startText>>

\* A click on the i-th item rendered by the last updateUI: the screenshot the
\* item was made for is selected and the list is rendered again.
SelectItem(i) ==
    /\ host = "overlay"
    /\ popupOpen
    /\ i \in 1..Len(listItems)
    /\ selectedScreenshot' = Some(listItems[i])
    /\ listItems' = popupScreenshots
    /\ lastEvent' = Event("select")
    /\ UNCHANGED <<backgroundVars, appVars, host, clock, overlayVars, popupOpen,
                   popupScreenshots, memoryUsage, popupStatus, popupTasks, tabMessage,
                   startText>>

\* captureScreenshot up to its awaits: the status is shown and the
\* 'captureVisibleTab' message is sent to the background.
CaptureScreenshot ==
    /\ host = "overlay"
    /\ popupOpen
    /\ Len(popupTasks) < MaxInFlight
    /\ popupStatus' = Status("Capturing screenshot...", NoSize)
    /\ popupTasks' = Append(popupTasks,
                            PopupTask("capture", "capture", <<>>, Undefined, NoSize))
    /\ lastEvent' = Event("capture")
    /\ UNCHANGED <<backgroundVars, appVars, host, clock, overlayVars, popupOpen,
                   popupScreenshots, selectedScreenshot, memoryUsage, listItems,
                   tabMessage, startText>>

\* sendMessage resolves with `response`.  With image data the screenshot
\* object is built with id `id`, pushed onto this.screenshots, and
\* saveScreenshots issues the write of the list; otherwise the handler throws
\* and its catch block shows the failure.
CaptureAnswered(i, response, id) ==
    /\ i \in 1..Len(popupTasks)
    /\ popupTasks[i].pc = "capture"
    /\ IF HasCapture(response)
       THEN /\ id \notin ScreenshotIdsOf(popupScreenshots)
            /\ LET shot == [id |-> id, annotations |-> <<>>]
               IN  /\ popupScreenshots' = Append(popupScreenshots, shot)
                   /\ popupTasks' = [popupTasks EXCEPT ![i] =
                          PopupTask("capture", "set", popupScreenshots', Some(shot), NoSize)]
            /\ lastEvent' = Event("captured")
            /\ UNCHANGED popupStatus
       ELSE /\ popupStatus' = Status("Failed to capture screenshot", NoSize)
            /\ popupTasks' = RemoveAt(popupTasks, i)
            /\ lastEvent' = Event("captureFailed")
            /\ UNCHANGED popupScreenshots
    /\ UNCHANGED <<backgroundVars, appVars, host, clock, overlayVars, popupOpen,
                   selectedScreenshot, memoryUsage, listItems, tabMessage, startText>>

\* clearAllScreenshots.  On an empty list only a status is shown.  Otherwise,
\* the confirmation accepted, this.screenshots is emptied and saveScreenshots
\* issues the write; selectedScreenshot is reset after the await.
ClearAllScreenshots ==
    /\ host = "overlay"
    /\ popupOpen
    /\ IF Len(popupScreenshots) = 0
       THEN /\ popupStatus' = Status("No screenshots to clear", NoSize)
            /\ UNCHANGED <<popupScreenshots, popupTasks>>
       ELSE /\ Len(popupTasks) < MaxInFlight
            /\ popupScreenshots' = <<>>
            /\ popupTasks' = Append(popupTasks,
                   PopupTask("clear", "set", <<>>, Undefined, FormatMemorySize(memoryUsage)))
            /\ UNCHANGED popupStatus
    /\ lastEvent' = Event("clearAll")
    /\ UNCHANGED <<backgroundVars, appVars, host, clock, overlayVars, popupOpen,
                   selectedScreenshot, memoryUsage, listItems, tabMessage, startText>>

\* What the suspended handler does once saveScreenshots has returned:
\* captureScreenshot shows its success and selects the new screenshot,
\* clearAllScreenshots resets the selection and reports what was freed.
AfterSaveScreenshots(task, usage) ==
    IF task.op = "capture"
    THEN /\ popupStatus' = Status("Screenshot captured successfully!", NoSize)
         /\ selectedScreenshot' = task.screenshot
    ELSE /\ popupStatus' = Status("Memory cleared!", FormatMemorySize(usage))
         /\ selectedScreenshot' = Undefined

\* The write issued by saveScreenshots succeeds.  In a live popup
\* saveScreenshots recomputes the memory usage and renders the list, and the
\* handler goes on.
SaveScreenshotsDone(i) ==
    /\ i \in 1..Len(popupTasks)
    /\ popupTasks[i].pc = "set"
    /\ storage' = popupTasks[i].payload
    /\ popupTasks' = RemoveAt(popupTasks, i)
    /\ IF popupTasks[i].closed
       THEN UNCHANGED <<memoryUsage, listItems, popupStatus, selectedScreenshot>>
       ELSE /\ memoryUsage' = CalculateMemoryUsage(popupScreenshots)
            /\ listItems' = popupScreenshots
            /\ AfterSaveScreenshots(popupTasks[i], memoryUsage')
    /\ lastEvent' = Event("popupWritten")
    /\ UNCHANGED <<backgroundVars, appVars, host, clock, isActive, screenshot, annotations,
                   currentAnnotation, overlayShown, isAddingAnnotation, pendingText,
                   ctxFont, layer, saves, popupOpen, popupScreenshots, tabMessage,
                   startText>>

\* The write rejects.  saveScreenshots' catch block shows 'Error saving
\* screenshots' and returns normally, so the handler goes on as after a
\* successful write and replaces that status with its own.
SaveScreenshotsFail(i) ==
    /\ i \in 1..Len(popupTasks)
    /\ popupTasks[i].pc = "set"
    /\ popupTasks' = RemoveAt(popupTasks, i)
    /\ IF popupTasks[i].closed
       THEN UNCHANGED <<popupStatus, selectedScreenshot>>
       ELSE AfterSaveScreenshots(popupTasks[i], memoryUsage)
    /\ lastEvent' = Event("popupWriteFailed")
    /\ UNCHANGED <<backgroundVars, appVars, host, clock, overlayVars, popupOpen,
                   popupScreenshots, memoryUsage, listItems, tabMessage, startText>>

\* startAnnotation of the popup, the Annotate button.  Without a selection a
\* status is shown; otherwise the 'startAnnotation' message with the selected
\* screenshot goes to the content script and window.close() ends the popup.
PopupStartAnnotation ==
    /\ host = "overlay"
    /\ popupOpen
    /\ IF selectedScreenshot = Undefined
       THEN /\ popupStatus' = Status("Please select a screenshot first", NoSize)
            /\ lastEvent' = Event("annotateRejected")
            /\ UNCHANGED <<popupOpen, popupScreenshots, selectedScreenshot, memoryUsage,
                           listItems, popupTasks, tabMessage>>
       ELSE /\ tabMessage' = Some([action |-> "startAnnotation",
                                   screenshot |-> selectedScreenshot[1]])
            /\ DocumentGone
            /\ lastEvent' = Event("annotate")
    /\ UNCHANGED <<backgroundVars, appVars, host, clock, overlayVars, startText>>

\* ---- background.js: the storage.onChanged listener ----
\* A missing imageData field, among string lengths.
Missing == -1

\* The 50MB limit, in string length units.
MemoryLimit == 50 * 1024 * 1024

\* imageData of a screenshot in a change: missing, or a string of some length.
\* The lengths reach the limit with one screenshot and with two.
ImageDatas ==
    {Missing, 0, 1, MemoryLimit \div 2, MemoryLimit \div 2 + 1,
     MemoryLimit, MemoryLimit + 1}

\* New values of the 'screenshots' key: removed, or a list of up to two screenshots.
NewValues ==
    {Undefined} \cup { Some(<<>>) } \cup
    { Some(<<[imageData |-> d]>>) : d \in ImageDatas } \cup
    { Some(<<[imageData |-> d], [imageData |-> e]>>) : d \in ImageDatas, e \in ImageDatas }

AreaNames == {"local", "sync", "session"}

\* `if (screenshot.imageData)`: a missing value and the empty string are falsy
HasImageData(s) == s.imageData # Missing /\ s.imageData # 0

RECURSIVE TotalSizeFrom(_, _)
TotalSizeFrom(newScreenshots, i) ==
    IF i > Len(newScreenshots) THEN 0
    ELSE (IF HasImageData(newScreenshots[i]) THEN newScreenshots[i].imageData ELSE 0)
         + TotalSizeFrom(newScreenshots, i + 1)

\* totalSize after the forEach
TotalSize(newScreenshots) == TotalSizeFrom(newScreenshots, 1)

\* changes.screenshots.newValue || []
NewScreenshots(newValue) == IF newValue = Undefined THEN <<>> ELSE newValue[1]

\* `if (totalSize > 50 * 1024 * 1024)`
MemoryIsHigh(totalSize) == totalSize > MemoryLimit

\* The listener runs for a change of the keys `keys` in area `areaName`;
\* `newValue` is changes.screenshots.newValue when 'screenshots' is among them.
\* chrome.notifications.create throws inside the try block when
\* chrome.notifications is undefined, and the catch block only logs.
StorageChanged(areaName, keys, newValue) ==
    /\ host = "overlay"
    /\ notifications < MaxNotifications
    /\ lastChange' = [areaName |-> areaName, keys |-> keys, newValue |-> newValue]
    /\ IF /\ areaName = "local"
          /\ "screenshots" \in keys
          /\ MemoryIsHigh(TotalSize(NewScreenshots(newValue)))
          /\ notificationsAvailable
       THEN notifications' = notifications + 1
       ELSE notifications' = notifications
    /\ lastEvent' = Event("storageChanged")
    /\ UNCHANGED <<popupVars, appVars, host, clock, overlayVars, notificationsAvailable,
                   startText>>

\* ---- ScreenshotAnnotationApp ----
\* What the component renders decides which handlers can run: the annotation
\* controls and the image need a current screenshot, Add Annotation shows
\* while !isAnnotating and Cancel while isAnnotating.

\* drawAnnotations of the app: the five drawing steps of one annotation.
AppDrawOne(a) ==
    << [op |-> "line", x1 |-> a.x, y1 |-> a.y, x2 |-> a.pointer_x, y2 |-> a.pointer_y],
       [op |-> "arrowhead", x |-> a.pointer_x, y |-> a.pointer_y,
        dy |-> Minus(a.pointer_y, a.y), dx |-> Minus(a.pointer_x, a.x), length |-> 10],
       [op |-> "fillRect", fill |-> "label", x |-> Minus(a.x, 4),
        y |-> Minus(Minus(a.y, 20), 4), text |-> a.text, font |-> LabelFont],
       [op |-> "fillText", text |-> a.text, x |-> a.x, y |-> Minus(a.y, 4),
        font |-> LabelFont],
       [op |-> "dot", x |-> a.pointer_x, y |-> a.pointer_y] >>

RECURSIVE AppDrawAll(_)
AppDrawAll(anns) ==
    IF anns = <<>> THEN <<>> ELSE AppDrawOne(Head(anns)) \o AppDrawAll(Tail(anns))

AppDrawPending(pending, font) ==
    IF pending = NoAnnotation THEN <<>>
    ELSE << [op |-> "fillRect", fill |-> "pending", x |-> Minus(pending.x, 2),
             y |-> Minus(pending.y, 18), text |-> pending.text, font |-> font],
            [op |-> "fillText", text |-> pending.text, x |-> pending.x,
             y |-> Minus(pending.y, 2), font |-> font] >>

\* Assigning canvas.width resets the context, its font included, before the
\* clear.
AppDrawAnnotations(anns, pending) ==
    << [op |-> "resize"], [op |-> "clearRect"] >> \o AppDrawAll(anns)
        \o AppDrawPending(pending, FontAfterLoop(anns, DefaultFont))

\* The effect on [annotations, pendingAnnotation, currentScreenshot] redraws
\* after every change of them; without a current screenshot it returns first.
AppCanvas ==
    IF currentScreenshot = NULL THEN <<>>
    ELSE AppDrawAnnotations(appAnnotations, pendingAnnotation)

\* event.clientX - rect.left: the offset inside the displayed image.
ImageX(e) == e.clientX - e.rect.left
ImageY(e) == e.clientY - e.rect.top

RECURSIVE SumLen(_, _)
SumLen(f, S) ==
    IF S = {} THEN 0
    ELSE LET s == CHOOSE t \in S : TRUE IN Len(f[s]) + SumLen(f, S \ {s})

PostsInFlight == Cardinality({i \in 1..Len(requests) : requests[i].kind = "post"})

\* A screenshot of the list is clicked; the effect on currentScreenshot
\* issues fetchAnnotations for it.  Nothing in the code waits for an earlier
\* request: `cap` bounds the requests in flight.
SelectScreenshotWithin(s, cap) ==
    /\ host = "app"
    /\ s # currentScreenshot
    /\ Len(requests) < cap
    /\ currentScreenshot' = s
    /\ requests' = Append(requests, [kind |-> "get", sid |-> s, data |-> NoAnnotation])
    /\ lastEvent' = Event("session")
    /\ UNCHANGED <<popupVars, backgroundVars, host, clock, overlayVars, isAnnotating, annotationText,
                   appAnnotations, pendingAnnotation, store, startText>>
    /\ appLayer' = AppCanvas'

SelectScreenshot(s) == SelectScreenshotWithin(s, MaxInFlight)

\* onChange of the text input.
EditText(v) ==
    /\ host = "app"
    /\ currentScreenshot # NULL
    /\ annotationText' = v
    /\ lastEvent' = Event("type")
    /\ UNCHANGED <<popupVars, backgroundVars, host, clock, overlayVars, currentScreenshot, isAnnotating,
                   appAnnotations, pendingAnnotation, requests, store, startText>>
    /\ appLayer' = AppCanvas'

\* startAnnotation, the Add Annotation button.
StartAnnotation ==
    /\ host = "app"
    /\ currentScreenshot # NULL
    /\ ~isAnnotating
    /\ IF Trim(annotationText) = <<>>
       THEN /\ lastEvent' = Event("startRejected")
            /\ UNCHANGED <<isAnnotating, pendingAnnotation, startText>>
       ELSE /\ isAnnotating' = TRUE
            /\ pendingAnnotation' = NoAnnotation
            /\ startText' = annotationText
            /\ lastEvent' = Event("start")
    /\ UNCHANGED <<popupVars, backgroundVars, host, clock, overlayVars, currentScreenshot, annotationText,
                   appAnnotations, requests, store>>
    /\ appLayer' = AppCanvas'

\* cancelAnnotation, the Cancel button.
CancelAnnotation ==
    /\ host = "app"
    /\ currentScreenshot # NULL
    /\ isAnnotating
    /\ isAnnotating' = FALSE
    /\ pendingAnnotation' = NoAnnotation
    /\ startText' = <<>>
    /\ lastEvent' = Event("cancel")
    /\ UNCHANGED <<popupVars, backgroundVars, host, clock, overlayVars, currentScreenshot, annotationText,
                   appAnnotations, requests, store>>
    /\ appLayer' = AppCanvas'

\* handleImageClick.  The second click calls addAnnotation, which issues the
\* POST for the current screenshot before the handler resets the placement.
HandleImageClick(e) ==
    /\ host = "app"
    /\ currentScreenshot # NULL
    /\ LET x == ImageX(e)
           y == ImageY(e)
       IN  IF ~isAnnotating
           THEN /\ lastEvent' = Event("click")
                /\ UNCHANGED <<isAnnotating, annotationText, pendingAnnotation,
                               requests, startText>>
           ELSE IF pendingAnnotation # NoAnnotation
           THEN /\ Len(requests) < MaxInFlight
                /\ SumLen(store, ScreenshotIds) + PostsInFlight < MaxAnnotations
                /\ requests' = Append(requests,
                       [kind |-> "post", sid |-> currentScreenshot,
                        data |-> [pendingAnnotation EXCEPT !.pointer_x = x,
                                                           !.pointer_y = y]])
                /\ pendingAnnotation' = NoAnnotation
                /\ isAnnotating' = FALSE
                /\ annotationText' = <<>>
                /\ startText' = <<>>
                /\ lastEvent' = Event("click")
           ELSE /\ pendingAnnotation' = [text |-> annotationText, x |-> x, y |-> y,
                                         pointer_x |-> x, pointer_y |-> y]
                /\ lastEvent' = Event("click")
                /\ UNCHANGED <<isAnnotating, annotationText, requests, startText>>
    /\ UNCHANGED <<popupVars, backgroundVars, host, clock, overlayVars, currentScreenshot, appAnnotations, store>>
    /\ appLayer' = AppCanvas'

\* The external store: append(screenshotId, record) and list(screenshotId).
StoreAppend(st, sid, record) == [st EXCEPT ![sid] = Append(@, record)]
StoreList(st, sid) == st[sid]

\* The store answers a POST, and addAnnotation goes on to fetchAnnotations
\* for the same screenshot.
PostDone(i) ==
    /\ i \in 1..Len(requests)
    /\ requests[i].kind = "post"
    /\ store' = StoreAppend(store, requests[i].sid, requests[i].data)
    /\ requests' = [requests EXCEPT ![i] =
                        [kind |-> "get", sid |-> requests[i].sid, data |-> NoAnnotation]]
    /\ lastEvent' = Event("posted")
    /\ UNCHANGED <<popupVars, backgroundVars, host, clock, overlayVars, currentScreenshot, isAnnotating,
                   annotationText, appAnnotations, pendingAnnotation, startText>>
    /\ appLayer' = AppCanvas'

\* The store answers a GET and the list is handed to setAnnotations.
GetDone(i) ==
    /\ i \in 1..Len(requests)
    /\ requests[i].kind = "get"
    /\ appAnnotations' = StoreList(store, requests[i].sid)
    /\ requests' = RemoveAt(requests, i)
    /\ lastEvent' = Event("fetched")
    /\ UNCHANGED <<popupVars, backgroundVars, host, clock, overlayVars, currentScreenshot, isAnnotating,
                   annotationText, pendingAnnotation, store, startText>>
    /\ appLayer' = AppCanvas'

\* mutant: the record of a failed POST is put in the list all the same
RequestFailKeepsRecord(i) ==
    /\ i \in 1..Len(requests)
    /\ requests' = RemoveAt(requests, i)
    /\ appAnnotations' = IF requests[i].kind = "post"
                         THEN Append(appAnnotations, requests[i].data)
                         ELSE appAnnotations
    /\ lastEvent' = Event(IF requests[i].kind = "post" THEN "postFailed" ELSE "getFailed")
    /\ UNCHANGED <<popupVars, backgroundVars, host, clock, overlayVars, currentScreenshot, isAnnotating,
                   annotationText, pendingAnnotation, store, startText>>
    /\ appLayer' = AppCanvas'

\* A request fails.  addAnnotation's catch block logs and alerts,
\* fetchAnnotations' catch block logs; nothing else changes.
RequestFail(i) ==
    /\ i \in 1..Len(requests)
    /\ requests' = RemoveAt(requests, i)
    /\ lastEvent' = Event(IF requests[i].kind = "post" THEN "postFailed" ELSE "getFailed")
    /\ UNCHANGED <<popupVars, backgroundVars, host, clock, overlayVars, currentScreenshot, isAnnotating,
                   annotationText, appAnnotations, pendingAnnotation, store, startText>>
    /\ appLayer' = AppCanvas'

\* Texts typed into the app's input, and clicks on the image laid out full size.
AppTexts == { <<>>, <<" ">>, <<"a">> }
AppPointerEvents == { e \in PointerEvents : e.rect.left = 0 }

NextApp ==
    \/ \E s \in ScreenshotIds : SelectScreenshot(s)
    \/ \E v \in AppTexts : EditText(v)
    \/ StartAnnotation
    \/ CancelAnnotation
    \/ \E e \in AppPointerEvents : HandleImageClick(e)
    \/ \E i \in 1..MaxInFlight : PostDone(i)
    \/ \E i \in 1..MaxInFlight : GetDone(i)
    \/ \E i \in 1..MaxInFlight : RequestFail(i)

\* ---- placement: both hosts, every input; storage is only read ----
NextOverlay ==
    \/ \E i \in 1..Len(storage) : StartAnnotationMode(storage[i])
    \/ \E v \in InputTexts : StartAddingAnnotation(v)
    \/ \E e \in PointerEvents : CanvasClick(e)
    \/ \E e \in PointerEvents : CanvasMouseMove(e)
    \/ Cancel

Next ==
    \/ Tick
    \/ NextOverlay
    \/ NextApp

Spec == Init /\ [][Next]_vars

\* ---- the overlay with Save & Exit: one text, one bounding box, one clock reading ----
SaveTexts == { <<" ", "b">> }
SavePointerEvents == { e \in PointerEvents : e.rect.left = 0 }

InitSave == Init /\ host = "overlay"

NextSave ==
    \/ \E i \in 1..Len(storage) : StartAnnotationMode(storage[i])
    \/ \E v \in SaveTexts : StartAddingAnnotation(v)
    \/ \E e \in SavePointerEvents : CanvasClick(e)
    \/ Cancel
    \/ SaveAndExit
    \/ \E i \in 1..MaxInFlight : SaveGetDone(i)
    \/ \E i \in 1..MaxInFlight : SaveSetDone(i)
    \/ \E i \in 1..MaxInFlight : SaveFail(i)
    \/ \E i \in 1..MaxInFlight : CleanupTimer(i)

SpecSave == InitSave /\ [][NextSave]_vars

\* ---- the overlay on a surface that can have no laid-out size ----
\* Bounding boxes of zero width, and of zero width and height, with a pointer
\* event at the box's origin and one away from it; and the full-size box.
DegenerateRects ==
    { [left |-> 0, top |-> 0, width |-> 0, height |-> DisplayHeight],
      [left |-> 0, top |-> 0, width |-> 0, height |-> 0] }

DegeneratePointerEvents ==
    { [clientX |-> k, clientY |-> k, rect |-> r] : r \in DegenerateRects, k \in {0, 10} }

SurfacePointerEvents == DegeneratePointerEvents \cup SavePointerEvents

NextDegenerate ==
    \/ \E i \in 1..Len(storage) : StartAnnotationMode(storage[i])
    \/ \E v \in SaveTexts : StartAddingAnnotation(v)
    \/ \E e \in SurfacePointerEvents : CanvasClick(e)
    \/ \E e \in DegeneratePointerEvents : CanvasMouseMove(e)
    \/ Cancel

SpecDegenerate == InitSave /\ [][NextDegenerate]_vars

\* ---- coordinate mapping: both hosts, every box, one text ----
\* Pointer events at the top-left corner, the centre and the bottom-right
\* corner of each bounding box.
MapPointerEvents ==
    PointerEvents \cup
    { [clientX |-> r.left + r.width \div 2, clientY |-> r.top + r.height \div 2,
       rect |-> r] : r \in Rects }

MapTexts == { <<"a">> }

NextMap ==
    \/ \E i \in 1..Len(storage) : StartAnnotationMode(storage[i])
    \/ \E v \in MapTexts : StartAddingAnnotation(v)
    \/ \E e \in MapPointerEvents : CanvasClick(e)
    \/ \E e \in MapPointerEvents : CanvasMouseMove(e)
    \/ Cancel
    \/ \E s \in ScreenshotIds : SelectScreenshot(s)
    \/ \E v \in MapTexts : EditText(v)
    \/ StartAnnotation
    \/ CancelAnnotation
    \/ \E e \in MapPointerEvents : HandleImageClick(e)
    \/ \E i \in 1..MaxInFlight : PostDone(i)
    \/ \E i \in 1..MaxInFlight : GetDone(i)
    \/ \E i \in 1..MaxInFlight : RequestFail(i)

SpecMap == Init /\ [][NextMap]_vars

\* ---- the overlay's Save & Exit beside an open popup ----
\* One text and one click position; sessions end by the save's timer.  The
\* popup, once opened, stays open; it captures and clears.
PopupPointerEvents == { e \in SavePointerEvents : e.clientX = 0 /\ e.clientY = 0 }

NextPopup ==
    \/ \E i \in 1..Len(storage) : StartAnnotationMode(storage[i])
    \/ \E v \in MapTexts : StartAddingAnnotation(v)
    \/ \E e \in PopupPointerEvents : CanvasClick(e)
    \/ SaveAndExit
    \/ \E i \in 1..MaxInFlight : SaveGetDone(i)
    \/ \E i \in 1..MaxInFlight : SaveSetDone(i)
    \/ \E i \in 1..MaxInFlight : CleanupTimer(i)
    \/ PopupOpen
    \/ CaptureScreenshot
    \/ \E i \in 1..MaxInFlight, id \in CapturedIds :
            CaptureAnswered(i, Some(CaptureVisibleTab(FALSE)), id)
    \/ ClearAllScreenshots
    \/ \E i \in 1..MaxInFlight : SaveScreenshotsDone(i)

SpecPopup == InitSave /\ [][NextPopup]_vars

\* ---- the background listener on its own: every area, key set and list ----
\* The manifest is not among the sources: both a manifest with and one
\* without the "notifications" permission are run.
InitWarn ==
    /\ host = "overlay"
    /\ clock = 0
    /\ InitOverlay
    /\ InitApp
    /\ InitPopup
    /\ notificationsAvailable \in BOOLEAN
    /\ InitListener
    /\ lastEvent = [kind |-> "none", from |-> "Idle"]
    /\ startText = <<>>

ChangedKeys == { {"screenshots"}, {"settings"}, {"screenshots", "settings"} }

NextWarn ==
    \E areaName \in AreaNames, keys \in ChangedKeys, newValue \in NewValues :
        /\ "screenshots" \notin keys => newValue = Undefined
        /\ StorageChanged(areaName, keys, newValue)

SpecWarn == InitWarn /\ [][NextWarn]_vars

\* ---- the app with two requests in flight; every request succeeds ----
FetchPointerEvents == { e \in AppPointerEvents : e.clientX = 0 /\ e.clientY = 0 }

InitFetch == Init /\ host = "app"

NextFetch ==
    \/ \E s \in ScreenshotIds : SelectScreenshotWithin(s, MaxFetches)
    \/ \E v \in MapTexts : EditText(v)
    \/ StartAnnotation
    \/ CancelAnnotation
    \/ \E e \in FetchPointerEvents : HandleImageClick(e)
    \/ \E i \in 1..MaxFetches : PostDone(i)
    \/ \E i \in 1..MaxFetches : GetDone(i)

SpecFetch == InitFetch /\ [][NextFetch]_vars

\* ---- the popup on its own: every response, failing writes ----
NextPopupUI ==
    \/ PopupOpen
    \/ PopupClose
    \/ \E i \in 1..Len(listItems) : SelectItem(i)
    \/ CaptureScreenshot
    \/ \E i \in 1..MaxInFlight, response \in CaptureResponses, id \in CapturedIds :
            CaptureAnswered(i, response, id)
    \/ ClearAllScreenshots
    \/ \E i \in 1..MaxInFlight : SaveScreenshotsDone(i)
    \/ \E i \in 1..MaxInFlight : SaveScreenshotsFail(i)
    \/ PopupStartAnnotation

SpecPopupUI == InitSave /\ [][NextPopupUI]_vars

\* ---- Save & Exit to its end: one text, one click position ----
\* A timer set with setTimeout fires as long as the page lives: the timer
\* step is weakly fair.  Nothing obliges a storage call to answer.
NextLive ==
    \/ \E i \in 1..Len(storage) : StartAnnotationMode(storage[i])
    \/ \E v \in MapTexts : StartAddingAnnotation(v)
    \/ \E e \in PopupPointerEvents : CanvasClick(e)
    \/ Cancel
    \/ SaveAndExit
    \/ \E i \in 1..MaxInFlight : SaveGetDone(i)
    \/ \E i \in 1..MaxInFlight : SaveSetDone(i)
    \/ \E i \in 1..MaxInFlight : SaveFail(i)
    \/ \E i \in 1..MaxInFlight : CleanupTimer(i)

SpecLive ==
    /\ InitSave
    /\ [][NextLive]_vars
    /\ \A i \in 1..MaxInFlight : WF_vars(CleanupTimer(i))

(***************************************************************************)
(* Properties                                                              *)
(***************************************************************************)
IsBlank(s) == \A i \in 1..Len(s) : s[i] = " "

\* The annotation list the host works on.
AnnotationSet == IF host = "overlay" THEN annotations ELSE appAnnotations

PendingDiscarded ==
    IF host = "overlay"
    THEN currentAnnotation = NoAnnotation /\ pendingText = <<>>
    ELSE pendingAnnotation = NoAnnotation

\* C1: a click in AwaitingTargetClick appends exactly one record (the overlay
\* to its list, the app as one POST to the store) whose text is the text
\* fixed by startPlacement, whose label position is the first click's and
\* whose target position is this click's; the state is Idle afterwards.
C1_CommitAtomicity ==
    [][ (Phase = "AwaitingTargetClick" /\ lastEvent'.kind = "click") =>
          /\ Phase' = "Idle"
          /\ IF host = "overlay"
             THEN /\ Len(annotations') = Len(annotations) + 1
                  /\ SubSeq(annotations', 1, Len(annotations)) = annotations
                  /\ LET r == annotations'[Len(annotations')]
                     IN  /\ r.text = startText
                         /\ r.x = currentAnnotation.x
                         /\ r.y = currentAnnotation.y
                         /\ \E e \in PointerEvents :
                               /\ CanvasClick(e)
                               /\ r.pointer_x = CanvasX(e)
                               /\ r.pointer_y = CanvasY(e)
             ELSE /\ Len(requests') = Len(requests) + 1
                  /\ SubSeq(requests', 1, Len(requests)) = requests
                  /\ LET q == requests'[Len(requests')]
                     IN  /\ q.kind = "post"
                         /\ q.sid = currentScreenshot
                         /\ q.data.text = startText
                         /\ q.data.x = pendingAnnotation.x
                         /\ q.data.y = pendingAnnotation.y
                         /\ \E e \in PointerEvents :
                               /\ HandleImageClick(e)
                               /\ q.data.pointer_x = ImageX(e)
                               /\ q.data.pointer_y = ImageY(e)
      ]_vars

SavesInFlight(list) == [i \in 1..Len(list) |-> <<list[i].pc, list[i].payload>>]

C3_TextNeverEmpty ==
    /\ \A i \in 1..Len(annotations) : annotations[i].text # <<>>
    /\ \A i \in 1..Len(requests) :
          requests[i].kind = "post" => requests[i].data.text # <<>>
    /\ \A sid \in ScreenshotIds : \A i \in 1..Len(store[sid]) :
          store[sid][i].text # <<>>

\* C4: right after a new annotation session starts (startAnnotationMode, or
\* another screenshot selected) the placement state is Idle with nothing
\* pending.
C4_SessionStartResets ==
    lastEvent.kind = "session" => (Phase = "Idle" /\ PendingDiscarded)

\* C5: a click while Idle changes neither the placement state nor any
\* annotation list and emits nothing; and the state leaves Idle only by a
\* startPlacement whose text is not blank.
C5_IdleTotality ==
    [][ /\ (Phase = "Idle" /\ lastEvent'.kind = "click") =>
              UNCHANGED <<isAddingAnnotation, currentAnnotation, pendingText,
                          annotations, storage, saves, isAnnotating,
                          pendingAnnotation, annotationText, appAnnotations,
                          requests, store, startText>>
        /\ (Phase = "Idle" /\ Phase' # "Idle") =>
              (lastEvent'.kind = "start" /\ ~IsBlank(startText'))
      ]_vars

C5_Witness ==
    /\ host = "overlay"
    /\ lastEvent = [kind |-> "click", from |-> "Idle"]
    /\ Len(annotations) > 0

\* C6: startPlacement with an empty or whitespace-only text changes neither
\* the placement state nor any annotation list, in whichever state it is
\* invoked.
C6_BlankStartRejected ==
    [][ /\ \A v \in InputTexts :
              (IsBlank(v) /\ StartAddingAnnotation(v)) =>
                  UNCHANGED <<overlayVars, appVars, startText>>
        /\ (IsBlank(annotationText) /\ StartAnnotation) =>
              UNCHANGED <<overlayVars, appVars, startText>>
      ]_vars

C6_Witness ==
    /\ host = "overlay"
    /\ lastEvent = [kind |-> "startRejected", from |-> "AwaitingTargetClick"]

\* C7: no two records of the overlay's annotation list have the same id.
C7_IdsDistinct ==
    \A i, j \in 1..Len(annotations) :
        i # j => annotations[i].id # annotations[j].id

\* C8: startPlacement (accepted or rejected), pointerClick and pointerMove
\* leave every record of the list at its index, unchanged; only the click in
\* AwaitingTargetClick changes the list, by one record at the end; and the
\* layer holds the committed annotations in list order.
CommittedOps(l, op) == SelectSeq(l, LAMBDA c : c.op = op)

RenderedInOrder ==
    LET lines == CommittedOps(layer, "line")
        boxes == CommittedOps(layer, "strokeRect")
    IN  /\ Len(lines) = Len(annotations)
        /\ Len(boxes) = Len(annotations)
        /\ \A i \in 1..Len(annotations) :
              /\ lines[i].x1 = annotations[i].x
              /\ lines[i].y1 = annotations[i].y
              /\ lines[i].x2 = annotations[i].pointer_x
              /\ lines[i].y2 = annotations[i].pointer_y
              /\ boxes[i].text = annotations[i].text

C8_InsertionOrder ==
    /\ [][ lastEvent'.kind \in {"start", "startRejected", "click", "move"} =>
             /\ host = "overlay" =>
                   IF Phase = "AwaitingTargetClick" /\ lastEvent'.kind = "click"
                   THEN /\ Len(annotations') = Len(annotations) + 1
                        /\ \A i \in 1..Len(annotations) :
                              annotations'[i] = annotations[i]
                   ELSE annotations' = annotations
             /\ appAnnotations' = appAnnotations
             /\ store' = store
         ]_vars
    /\ [](overlayShown => RenderedInOrder)

C8_Witness ==
    /\ host = "overlay"
    /\ lastEvent = [kind |-> "click", from |-> "AwaitingTargetClick"]
    /\ Len(annotations) = 2
    /\ annotations[1] # annotations[2]

\* C9: the first click leaves the annotation list and the storage unchanged,
\* and every record in storage, or in a list on its way to storage, was
\* pushed by a second click: the annotation in progress is never among them.
ListRecords(list) ==
    UNION { { list[k].annotations[i] : i \in 1..Len(list[k].annotations) } :
              k \in 1..Len(list) }

StoredRecords ==
    ListRecords(storage) \cup UNION { ListRecords(saves[n].payload) : n \in 1..Len(saves) }

C9_NoPartialWrites ==
    /\ [][ (Phase = "AwaitingLabelClick" /\ lastEvent'.kind = "click") =>
             (annotations' = annotations /\ storage' = storage) ]_vars
    /\ [](/\ \A r \in StoredRecords : r.pushed
          /\ currentAnnotation \notin StoredRecords)

C9_Witness ==
    /\ lastEvent = [kind |-> "saveWritten", from |-> "AwaitingTargetClick"]
    /\ currentAnnotation # NoAnnotation
    /\ \E k \in 1..Len(storage) :
          storage[k].id = screenshot /\ storage[k].annotations # <<>>

\* C10: a pointerMove changes no placement field and no annotation list; it
\* redraws the layer only in AwaitingTargetClick, and the committed
\* annotations on the layer stay as they were.
C10_MoveOnlyPreviews ==
    [][ lastEvent'.kind = "move" =>
          /\ UNCHANGED <<isActive, screenshot, annotations, currentAnnotation,
                         overlayShown, isAddingAnnotation, pendingText, storage,
                         saves, appVars, startText>>
          /\ layer' # layer => Phase = "AwaitingTargetClick"
          /\ \A op \in {"line", "arrowhead", "dot", "strokeRect"} :
                CommittedOps(layer', op) = CommittedOps(layer, op)
      ]_vars

C10_Witness ==
    /\ lastEvent = [kind |-> "move", from |-> "AwaitingTargetClick"]
    /\ layer[Len(layer)].op = "dashedLine"
    /\ Len(annotations) > 0

\* The overlay's session and placement fields.
SessionState == <<isActive, screenshot, annotations, currentAnnotation,
                  overlayShown, isAddingAnnotation, pendingText>>

\* C11: cancel() leaves the state Idle, also while a Save & Exit is in flight,
\* and afterwards no continuation and no timer of a saveAndExit that cancel()
\* interrupted writes to storage or changes the session and placement fields.
C11_CancelLeavesNothingPending ==
    /\ [](lastEvent.kind = "cancel" => (Phase = "Idle" /\ PendingDiscarded))
    /\ [][ \A i \in 1..Len(saves) :
             (/\ saves[i].cancelled
              /\ SaveGetDone(i) \/ SaveSetDone(i) \/ SaveFail(i) \/ CleanupTimer(i))
             => (storage' = storage /\ UNCHANGED SessionState)
         ]_vars

\* C12: the placement state changes only with a startPlacement, a click, a
\* cancel or the start of a session on a new surface; no timer moves a
\* placement out of AwaitingLabelClick or AwaitingTargetClick.
C12_NoTimeout ==
    [][ /\ Phase' # Phase =>
              lastEvent'.kind \in {"start", "click", "cancel", "session"}
        /\ (\E i \in 1..Len(saves) : CleanupTimer(i)) =>
              (Phase \in {"AwaitingLabelClick", "AwaitingTargetClick"} => Phase' = Phase)
      ]_vars

\* A record passes validation: text not empty, both positions finite.
IsValidRecord(r) ==
    /\ r.text # <<>>
    /\ IsFinite(r.x) /\ IsFinite(r.y)
    /\ IsFinite(r.pointer_x) /\ IsFinite(r.pointer_y)

\* C13: every record of the working annotation list, loaded at the start of
\* the session or committed by a placement, passes validation.
C13_OnlyValidRecords ==
    \A i \in 1..Len(AnnotationSet) : IsValidRecord(AnnotationSet[i])

\* C14: a click handled while the canvas's bounding box has zero width or
\* height leaves the placement state where it was, and no pending or
\* committed record holds a coordinate that is not finite.
C14_DegenerateSurfaceRejected ==
    /\ [][ \A e \in DegeneratePointerEvents :
             CanvasClick(e) => (Phase' = Phase /\ UNCHANGED <<currentAnnotation, annotations>>)
         ]_vars
    /\ [](/\ currentAnnotation # NoAnnotation =>
                (IsFinite(currentAnnotation.x) /\ IsFinite(currentAnnotation.y))
          /\ \A i \in 1..Len(annotations) :
                /\ IsFinite(annotations[i].x) /\ IsFinite(annotations[i].y)
                /\ IsFinite(annotations[i].pointer_x) /\ IsFinite(annotations[i].pointer_y))

\* The annotation in progress, and the handler's step for a pointer event.
Pending == IF host = "overlay" THEN currentAnnotation ELSE pendingAnnotation
Click(e) == IF host = "overlay" THEN CanvasClick(e) ELSE HandleImageClick(e)

\* C15: whatever the bounding box, the label click at the box's top-left
\* corner is stored as (0, 0) and the label click at its bottom-right corner
\* as the image's size (DisplayWidth, DisplayHeight), each axis by itself.
C15_ScaleInvariantMapping ==
    [][ \A e \in MapPointerEvents :
          (Phase = "AwaitingLabelClick" /\ Click(e)) =>
              /\ e.clientX = e.rect.left => Pending'.x = 0
              /\ e.clientY = e.rect.top => Pending'.y = 0
              /\ e.clientX = e.rect.left + e.rect.width => Pending'.x = DisplayWidth
              /\ e.clientY = e.rect.top + e.rect.height => Pending'.y = DisplayHeight
      ]_vars

\* C16: for clicks inside a bounding box of nonzero size, every position of
\* the annotation in progress and of every record committed, sent or stored
\* lies within the image: 0 <= x <= DisplayWidth and 0 <= y <= DisplayHeight.
InImage(r) ==
    /\ r.x \in 0..DisplayWidth /\ r.pointer_x \in 0..DisplayWidth
    /\ r.y \in 0..DisplayHeight /\ r.pointer_y \in 0..DisplayHeight

C16_PositionsInImage ==
    /\ Pending # NoAnnotation => InImage(Pending)
    /\ \A i \in 1..Len(annotations) : InImage(annotations[i])
    /\ \A i \in 1..Len(appAnnotations) : InImage(appAnnotations[i])
    /\ \A i \in 1..Len(requests) : requests[i].kind = "post" => InImage(requests[i].data)
    /\ \A sid \in ScreenshotIds : \A i \in 1..Len(store[sid]) : InImage(store[sid][i])

C16_Witness ==
    /\ host = "overlay"
    /\ lastEvent = [kind |-> "click", from |-> "AwaitingTargetClick"]
    /\ \E i \in 1..Len(annotations) :
          /\ annotations[i].x = 0 /\ annotations[i].y = 0
          /\ annotations[i].pointer_x = DisplayWidth
          /\ annotations[i].pointer_y = DisplayHeight
    /\ \E i \in 1..Len(annotations) : annotations[i].x = DisplayWidth \div 2

\* C17: the record the overlay commits carries, as id and as timestamp, the
\* clock reading of the committing (second) click.
C17_IdAssignedAtCommit ==
    [][ (host = "overlay" /\ Phase = "AwaitingTargetClick" /\ lastEvent'.kind = "click") =>
          LET r == annotations'[Len(annotations')]
          IN  r.id = clock' /\ r.timestamp = clock'
      ]_vars

\* The host's canvas, and what a render of the current (AnnotationSet,
\* PlacementState) pair puts on a cleared layer.
Canvas == IF host = "overlay" THEN layer ELSE appLayer

PairFont == IF AnnotationSet = <<>> THEN DefaultFont ELSE LabelFont

RenderOfPair ==
    IF host = "overlay"
    THEN << [op |-> "clearRect"] >> \o DrawAll(annotations)
            \o DrawCurrent(currentAnnotation, PairFont)
    ELSE << [op |-> "resize"], [op |-> "clearRect"] >> \o AppDrawAll(appAnnotations)
            \o AppDrawPending(pendingAnnotation, PairFont)

\* The overlay's handlers that call drawAnnotations.
OverlayRenders ==
    \/ lastEvent'.kind = "session"
    \/ Phase = "AwaitingTargetClick" /\ lastEvent'.kind \in {"click", "move"}

\* C18: every render starts from a cleared layer and draws what the current
\* (AnnotationSet, PlacementState) pair alone determines, whatever was
\* rendered on the surface before; the mousemove handler then adds its
\* preview line and nothing else.
C18_IdempotentFullRedraw ==
    [][ /\ (host = "overlay" /\ OverlayRenders) =>
              /\ Len(layer') >= Len(RenderOfPair')
              /\ SubSeq(layer', 1, Len(RenderOfPair')) = RenderOfPair'
              /\ \A k \in (Len(RenderOfPair') + 1)..Len(layer') :
                    /\ layer'[k].op = "dashedLine"
                    /\ k = Len(layer')
                    /\ lastEvent'.kind = "move"
        /\ (host = "app" /\ currentScreenshot' # NULL) => appLayer' = RenderOfPair'
      ]_vars

C18_Witness ==
    /\ host = "overlay"
    /\ lastEvent = [kind |-> "move", from |-> "AwaitingTargetClick"]
    /\ annotations = <<>>
    /\ \E k \in 1..Len(layer) : layer[k].op = "fillText" /\ layer[k].font = DefaultFont

\* The drawing steps of the committed annotations: what follows the clear,
\* six steps for each annotation.
RenderOrder == << "line", "arrowhead", "dot", "fillRect", "strokeRect", "fillText" >>

RECURSIVE ClearIndex(_, _)
ClearIndex(l, k) ==
    IF k > Len(l) THEN 0
    ELSE IF l[k].op = "clearRect" THEN k ELSE ClearIndex(l, k + 1)

AfterClear(l) == SubSeq(l, ClearIndex(l, 1) + 1, Len(l))

\* C19: on the canvas the steps of annotation i are, in this order, its line,
\* its arrowhead, its marker, its background rectangle, the rectangle's
\* border and its text, all of them before any step of annotation i + 1.
C19_RenderingOrder ==
    Canvas # <<>> =>
        LET steps == AfterClear(Canvas)
        IN  /\ Len(steps) >= 6 * Len(AnnotationSet)
            /\ \A i \in 1..Len(AnnotationSet) : \A k \in 1..6 :
                  LET c == steps[6 * (i - 1) + k]
                      a == AnnotationSet[i]
                  IN  /\ c.op = RenderOrder[k]
                      /\ k = 1 => (c.x1 = a.x /\ c.y1 = a.y
                                   /\ c.x2 = a.pointer_x /\ c.y2 = a.pointer_y)
                      /\ k \in {2, 3} => (c.x = a.pointer_x /\ c.y = a.pointer_y)
                      /\ k \in {4, 5, 6} => c.text = a.text

\* C20: the overlay's layer holds a dashed preview line only in
\* AwaitingTargetClick; each pointerMove in AwaitingTargetClick leaves exactly
\* one, from the pending label position to the mapped pointer position; a
\* pointerMove in Idle or AwaitingLabelClick draws nothing; and after a commit
\* no preview line is on the layer.
Previews(l) == CommittedOps(l, "dashedLine")

C20_PreviewOnlyWhileAiming ==
    /\ [](Previews(layer) # <<>> => Phase = "AwaitingTargetClick")
    /\ [][ \A e \in MapPointerEvents :
             CanvasMouseMove(e) =>
                 IF Phase = "AwaitingTargetClick"
                 THEN Previews(layer') =
                          << [op |-> "dashedLine",
                              x1 |-> currentAnnotation.x, y1 |-> currentAnnotation.y,
                              x2 |-> CanvasX(e), y2 |-> CanvasY(e)] >>
                 ELSE layer' = layer
         ]_vars
    /\ [][ (host = "overlay" /\ Phase = "AwaitingTargetClick" /\ lastEvent'.kind = "click")
             => Previews(layer') = <<>> ]_vars

C20_Witness ==
    /\ host = "overlay"
    /\ lastEvent = [kind |-> "move", from |-> "AwaitingTargetClick"]
    /\ Previews(layer) # <<>>
    /\ Previews(layer)[1].x1 # Previews(layer)[1].x2
    /\ Previews(layer)[1].x1 = DisplayWidth

\* The labels on a canvas: the commands that measure a text (the rectangles
\* sized by measureText) and the commands that draw one.
Measured(l) == SelectSeq(l, LAMBDA c : c.op \in {"fillRect", "strokeRect"})
Written(l) == CommittedOps(l, "fillText")

\* C21: every label on the canvas, committed or in progress, is measured and
\* drawn in the renderer's font constant, whatever the annotation list holds.
C21_OneLabelFont ==
    /\ \A k \in 1..Len(Measured(Canvas)) : Measured(Canvas)[k].font = LabelFont
    /\ \A k \in 1..Len(Written(Canvas)) : Written(Canvas)[k].font = LabelFont

\* C22: Save & Exit up to its first await, and the catch block when the
\* storage read or write fails, change neither the session nor the placement
\* nor the canvas nor the storage: the overlay stays open with the working
\* list as it was, the failure is reported and no cleanup is scheduled.
C22_SaveFailureKeepsSession ==
    [][ /\ SaveAndExit => UNCHANGED <<SessionState, ctxFont, layer, storage>>
        /\ \A i \in 1..Len(saves) :
              SaveFail(i) =>
                  /\ UNCHANGED <<SessionState, ctxFont, layer, storage>>
                  /\ saves' = RemoveAt(saves, i)
                  /\ lastEvent'.kind = "saveFailed"
      ]_vars

C22_Witness ==
    /\ lastEvent = [kind |-> "saveFailed", from |-> "AwaitingTargetClick"]
    /\ overlayShown
    /\ Len(annotations) > 0
    /\ saves = <<>>

\* C23: when the POST of a committed record fails, the app's annotation list,
\* the store and the placement state stay as they were, the request is
\* dropped (no second attempt, no record put in the list), and the failure
\* is reported.
C23_FailedAppendKeepsList ==
    [][ \A i \in 1..Len(requests) :
          (requests[i].kind = "post" /\ RequestFail(i)) =>
              /\ UNCHANGED <<appAnnotations, store, currentScreenshot, isAnnotating,
                             pendingAnnotation, annotationText>>
              /\ requests' = RemoveAt(requests, i)
              /\ lastEvent'.kind = "postFailed"
      ]_vars

C23_Witness ==
    /\ host = "app"
    /\ lastEvent = [kind |-> "postFailed", from |-> "Idle"]
    /\ Len(appAnnotations) = 1
    /\ requests = <<>>

\* The text a pending placement will commit: the overlay's pendingText; in
\* the app the input's text until the label click, then the text that click
\* captured.
PendingLabelText ==
    IF host = "overlay" THEN pendingText
    ELSE IF pendingAnnotation = NoAnnotation THEN Trim(annotationText)
    ELSE Trim(pendingAnnotation.text)

\* C24: a label position is pending only while a placement is active, an
\* active placement has a non-empty pending text, and while no overlay is
\* shown the overlay's placement is Idle with an empty pending text.
C24_NoIllegalPlacementState ==
    /\ currentAnnotation # NoAnnotation => isAddingAnnotation
    /\ pendingAnnotation # NoAnnotation => isAnnotating
    /\ Phase # "Idle" => PendingLabelText # <<>>
    /\ (host = "overlay" /\ ~overlayShown) =>
          (Phase = "Idle" /\ pendingText = <<>> /\ currentAnnotation = NoAnnotation)

\* The text of the most recent accepted startPlacement: the overlay's
\* startAddingAnnotation stores it in pendingText on every acceptance; the
\* app cannot start again while a placement is pending.
LatestStartText == IF host = "overlay" THEN pendingText ELSE startText

\* C27: the record a commit appends (the overlay) or sends (the app) carries
\* the text of the most recent accepted startPlacement before the commit.
C27_LatestStartTextWins ==
    [][ (Phase = "AwaitingTargetClick" /\ lastEvent'.kind = "click") =>
          IF host = "overlay"
          THEN annotations'[Len(annotations')].text = LatestStartText
          ELSE requests'[Len(requests')].data.text = LatestStartText
      ]_vars

\* C28: after a click that changes the placement or the annotation list, and
\* after a session start, the host's canvas shows what the renderer draws for
\* the new (AnnotationSet, PlacementState) pair; after the label click that
\* includes the pending label.
C28_RedrawnAfterEveryChange ==
    [][ (/\ lastEvent'.kind \in {"click", "session"}
         /\ <<AnnotationSet, Pending, Phase>>' # <<AnnotationSet, Pending, Phase>>
            \/ lastEvent'.kind = "session")
        => IF host = "overlay" THEN layer' = RenderOfPair'
           ELSE appLayer' = RenderOfPair'
      ]_vars

\* the annotations storage holds for screenshot `id`
StoredAnnotations(id) ==
    LET index == FindIndex(storage, id)
    IN  IF index = 0 THEN <<>> ELSE storage[index].annotations

\* C29: when the timer of a successful save fires, a session started since by
\* startAnnotationMode stays as it is, and the annotations of the session the
\* timer closes are all in storage.
C29_CleanupOnlySavedSession ==
    [][ \A i \in 1..Len(saves) :
          (CleanupTimer(i) /\ overlayShown)
          => /\ lastEvent.kind = "session" => UNCHANGED SessionState
             /\ lastEvent.kind # "session" => StoredAnnotations(screenshot) = annotations
      ]_vars

\* C25: when a save reports success for the session on screen, storage holds
\* a record with the session's screenshot id and the session's annotations.
C25_SuccessMeansStored ==
    [][ \A i \in 1..Len(saves) :
          (SaveSetDone(i) /\ overlayShown)
          => /\ FindIndex(storage', screenshot) # 0
             /\ StoredAnnotations(screenshot)' = annotations
      ]_vars

\* C30: only Clear All removes a screenshot from storage, and only the
\* overlay's write and Clear All change the annotations stored with one.
C30_NoLostUpdate ==
    [][ \/ \E i \in 1..Len(popupTasks) :
                popupTasks[i].op = "clear" /\ SaveScreenshotsDone(i)
        \/ /\ ScreenshotIdsOf(storage) \subseteq ScreenshotIdsOf(storage')
           /\ (\E i \in 1..Len(saves) : SaveSetDone(i))
              \/ \A id \in ScreenshotIdsOf(storage) :
                    StoredAnnotations(id)' = StoredAnnotations(id)
      ]_vars

\* a change after which the claim expects a notification
WarningDue(change) ==
    /\ change.areaName = "local"
    /\ "screenshots" \in change.keys
    /\ TotalSize(NewScreenshots(change.newValue)) > 50 * 1024 * 1024

\* C26: a storage change creates a notification exactly when it is a change of
\* 'screenshots' in the local area whose new list's imageData lengths sum to
\* more than 50*1024*1024.
C26_WarnedIffOverLimit ==
    [][ lastEvent'.kind = "storageChanged"
        => IF WarningDue(lastChange') THEN notifications' = notifications + 1
           ELSE notifications' = notifications
      ]_vars

\* C31: when no request is in flight, the app's annotation list is the
\* store's list for the current screenshot.
C31_SettledListIsCurrent ==
    (host = "app" /\ requests = <<>> /\ currentScreenshot # NULL)
    => appAnnotations = StoreList(store, currentScreenshot)

\* C32: the popup's selected screenshot is null or an element of its list.
C32_SelectionInList ==
    selectedScreenshot # Undefined
    => \E i \in 1..Len(popupScreenshots) : popupScreenshots[i] = selectedScreenshot[1]

\* a response without image data: none at all, or one carrying an error
NoImageData(response) == response = Undefined \/ response[1].imageData = Undefined

\* C33: the background's response carries image data or an error, never
\* both and never neither; a capture answered without image data leaves the
\* popup's list, its selection and storage as they were and the failure is
\* shown.
C33_FailedCaptureChangesNothing ==
    /\ [](\A e \in BOOLEAN :
            (CaptureVisibleTab(e).imageData = Undefined)
            # (CaptureVisibleTab(e).error = Undefined))
    /\ [][ \A i \in 1..Len(popupTasks), response \in CaptureResponses, id \in CapturedIds :
             (NoImageData(response) /\ CaptureAnswered(i, response, id))
             => /\ UNCHANGED <<popupScreenshots, selectedScreenshot, storage>>
                /\ popupStatus'.message = "Failed to capture screenshot"
         ]_vars

C33_Witness ==
    /\ lastEvent.kind = "captureFailed"
    /\ popupStatus.message = "Failed to capture screenshot"
    /\ selectedScreenshot # Undefined
    /\ popupScreenshots = storage
    /\ Len(storage) = 2

SuccessMessages == {"Screenshot captured successfully!", "Memory cleared!"}

\* C34: when the popup's write fails no success is reported, and once the
\* handler has finished the popup's list is the stored list.
C34_SuccessOnlyIfWritten ==
    [][ \A i \in 1..Len(popupTasks) :
          /\ (SaveScreenshotsFail(i) /\ ~popupTasks[i].closed)
             => /\ popupStatus'.message \notin SuccessMessages
                /\ popupScreenshots' = storage'
          /\ (SaveScreenshotsDone(i) /\ ~popupTasks[i].closed)
             => popupScreenshots' = storage'
      ]_vars

\* C35: the size in the 'Memory cleared!' status is the size the
\* confirmation prompt showed before the list was emptied.
C35_FreedIsUsageBefore ==
    [][ \A i \in 1..Len(popupTasks) :
          (/\ popupTasks[i].op = "clear"
           /\ ~popupTasks[i].closed
           /\ SaveScreenshotsDone(i) \/ SaveScreenshotsFail(i))
          => popupStatus'.size = popupTasks[i].prompted
      ]_vars

\* the session fields after cleanup
SessionReset ==
    /\ ~overlayShown
    /\ ~isActive
    /\ screenshot = NULL
    /\ annotations = <<>>
    /\ Phase = "Idle"

\* C36: once both storage calls of a Save & Exit have succeeded, the overlay
\* is eventually removed and the session reset; a Save & Exit whose storage
\* call fails schedules no cleanup and leaves the overlay where it is.
C36_SaveEventuallyEndsSession ==
    /\ (\E i \in 1..Len(saves) : saves[i].pc = "timer") ~> SessionReset
    /\ [][ \A i \in 1..Len(saves) :
             SaveFail(i) => (overlayShown' = overlayShown /\ saves' = RemoveAt(saves, i))
         ]_vars

C36_Witness ==
    /\ lastEvent.kind = "timer"
    /\ SessionReset
    /\ saves = <<>>
    /\ Len(StoredAnnotations("s1")) = 1

====
